---- MODULE Spec2Model ----
(***************************************************************************)
(* TrackList of mpris-rs (src/src/track_list.rs): the ordered list of      *)
(* TrackIDs, its RefCell-guarded metadata cache, the operations that keep  *)
(* both up to date from a Player, and the MetadataIter built from them.    *)
(***************************************************************************)
EXTENDS Integers, Sequences, FiniteSets, TLC

\* Longest track list explored (ids of the list, of `other`, of the player).
MaxLen == 3

\* --------------------------------------------------------------- values

\* TrackID values (valid D-Bus paths; equality is by value).
TrackIDs == {"a", "b"}

\* Metadata::track_id() == None.
NoId == "none"

\* What tells two Metadata values with the same track id apart; 0 is the
\* Metadata that carries nothing but its track id.
Versions == {0, 1}

\* Metadata values: the track id the record reports (or none) and the rest.
Metadata == [id : TrackIDs, v : Versions] \cup {[id |-> NoId, v |-> 0]}

\* Metadata::track_id(): Option<TrackID>; NoId stands for None.
track_id(metadata) == metadata.id

\* Metadata::new(track_id): a Metadata with only the track id set.
MetadataNew(id) == [id |-> id, v |-> 0]

\* Iterator::next() == None.
Nothing == [id |-> NoId, v |-> -1]

\* All sequences over S of length at most n.
SeqsUpTo(S, n) == UNION {[1..k -> S] : k \in 0..n}

\* HashMap<TrackID, Metadata> values: functions on a subset of TrackIDs.
HashMaps == UNION {[D -> Metadata] : D \in SUBSET TrackIDs}

\* HashMap::new() / HashMap::with_capacity(n).
HashMapNew == [k \in {} |-> MetadataNew(NoId)]

HashMapInsert(map, k, value) ==
    [x \in (DOMAIN map) \cup {k} |-> IF x = k THEN value ELSE map[x]]

HashMapRemove(map, k) == [x \in (DOMAIN map) \ {k} |-> map[x]]

\* HashMap::extend: the entries of `from` overwrite those of `map`.
HashMapExtend(map, from) ==
    [x \in (DOMAIN map) \cup (DOMAIN from) |->
        IF x \in DOMAIN from THEN from[x] ELSE map[x]]

\* ------------------------------------------------------------- RefCell
\* std::cell::RefCell borrow flag: 0 unused, n > 0 shared borrows, -1 an
\* exclusive borrow.
CanBorrow(flag) == flag >= 0
CanBorrowMut(flag) == flag = 0
TakeRef(flag) == flag + 1
DropRef_leaks(flag) == flag

DropRef(flag) == flag - 1
TakeRefMut(flag) == flag - 1
DropRefMut(flag) == flag + 1

\* --------------------------------------------------------------- Player
\* Result<Vec<_>, DBusError> of a Player call.
Ok(value) == [ok |-> TRUE, value |-> value]
DBusErr == [ok |-> FALSE, value |-> <<>>]

\* What Player::get_track_list can answer.
TrackListAnswers == {DBusErr} \cup {Ok(s) : s \in SeqsUpTo(TrackIDs, MaxLen)}

\* What Player::get_tracks_metadata(request) can answer: an error, or at
\* most one Metadata per requested id, of any content.
MetadataAnswers(request) ==
    {DBusErr} \cup {Ok(s) : s \in SeqsUpTo(Metadata, Len(request))}

\* ------------------------------------------------------------ TrackList
\* A TrackList value: the ids, the HashMap inside the RefCell and the
\* RefCell's borrow flag.
TrackList(ids, cache, borrow) == [ids |-> ids, cache |-> cache, borrow |-> borrow]

\* TrackList::new(ids): no cache yet, nothing borrowed.
new(ids) == TrackList(ids, HashMapNew, 0)

\* MetadataIter { order, metadata, current }; live is FALSE where no
\* iterator was made.
NoIter == [live |-> FALSE, order |-> <<>>, metadata |-> HashMapNew, current |-> 0]
MetadataIter(order, metadata) ==
    [live |-> TRUE, order |-> order, metadata |-> metadata, current |-> 0]

\* What a call leaves behind: the list's fields, how the call ended ("ok",
\* "dbus_error", "borrow_error", or "panic" for a failed borrow()/
\* borrow_mut()), whether the Player was called (get_track_list by reload,
\* get_tracks_metadata by the others) and with which ids, and the iterator
\* it returned.
Outcome(ids, cache, borrow, result) ==
    [ids |-> ids, cache |-> cache, borrow |-> borrow, result |-> result,
     called |-> FALSE, request |-> <<>>, iter |-> NoIter]

len_of_cache(self) == Cardinality(DOMAIN self.cache)

\* TrackList::len
len(self) == Len(self.ids)

\* insert: .iter().enumerate().find(|(_, id)| *id == after).map(index)
\* .unwrap_or_else(|| self.ids.len()); the index is 0-based.
Position_first_or_zero(ids, after) ==
    IF \E i \in 1..Len(ids) : ids[i] = after
    THEN (CHOOSE i \in 1..Len(ids) :
              ids[i] = after /\ \A j \in 1..(i - 1) : ids[j] # after) - 1
    ELSE 0

Position(ids, after) ==
    IF \E i \in 1..Len(ids) : ids[i] = after
    THEN (CHOOSE i \in 1..Len(ids) :
              ids[i] = after /\ \A j \in 1..(i - 1) : ids[j] # after) - 1
    ELSE Len(ids)

\* Vec::insert(index, element): element ends up at 0-based position index.
VecInsert(vec, index, element) ==
    SubSeq(vec, 1, index) \o <<element>> \o SubSeq(vec, index + 1, Len(vec))

InsertIds_before_index(ids, after, new_id) ==
    LET index == Position(ids, after)
    IN  IF index >= Len(ids)
        THEN Append(ids, new_id)
        ELSE VecInsert(ids, index, new_id)

\* insert, the part on self.ids.
InsertIds(ids, after, new_id) ==
    LET index == Position(ids, after)
    IN  IF index >= Len(ids)
        THEN Append(ids, new_id)
        ELSE VecInsert(ids, index + 1, new_id)

insert_without_id_guard(self, after, metadata) ==
    LET new_id == track_id(metadata)
        new_ids == InsertIds(self.ids, after, new_id)
    IN  IF ~CanBorrowMut(self.borrow)
        THEN Outcome(new_ids, self.cache, self.borrow, "panic")
        ELSE Outcome(new_ids, HashMapInsert(self.cache, new_id, metadata),
                     DropRefMut(TakeRefMut(self.borrow)), "ok")

insert_keeps_existing_entry(self, after, metadata) ==
    LET new_id == track_id(metadata)
        new_ids == InsertIds(self.ids, after, new_id)
    IN  IF new_id = NoId
        THEN Outcome(self.ids, self.cache, self.borrow, "ok")
        ELSE IF ~CanBorrowMut(self.borrow)
        THEN Outcome(new_ids, self.cache, self.borrow, "panic")
        ELSE Outcome(new_ids,
                     IF new_id \in DOMAIN self.cache
                     THEN self.cache
                     ELSE HashMapInsert(self.cache, new_id, metadata),
                     DropRefMut(TakeRefMut(self.borrow)), "ok")

\* TrackList::insert
insert(self, after, metadata) ==
    LET new_id == track_id(metadata)
        new_ids == InsertIds(self.ids, after, new_id)
    IN  IF new_id = NoId
        THEN Outcome(self.ids, self.cache, self.borrow, "ok")
        ELSE IF ~CanBorrowMut(self.borrow)
        THEN Outcome(new_ids, self.cache, self.borrow, "panic")
        ELSE Outcome(new_ids, HashMapInsert(self.cache, new_id, metadata),
                     DropRefMut(TakeRefMut(self.borrow)), "ok")

\* Vec::retain(|existing_id| existing_id != id)
Retain_first_only(ids, id) ==
    IF \E i \in 1..Len(ids) : ids[i] = id
    THEN LET p == Position(ids, id) + 1
         IN  SubSeq(ids, 1, p - 1) \o SubSeq(ids, p + 1, Len(ids))
    ELSE ids

Retain(ids, id) == SelectSeq(ids, LAMBDA existing_id : existing_id # id)

\* TrackList::remove
remove(self, id) ==
    LET new_ids == Retain(self.ids, id)
    IN  IF ~CanBorrowMut(self.borrow)
        THEN Outcome(new_ids, self.cache, self.borrow, "panic")
        ELSE Outcome(new_ids, HashMapRemove(self.cache, id),
                     DropRefMut(TakeRefMut(self.borrow)), "ok")

replace_self_wins(self, other) ==
    IF ~CanBorrowMut(self.borrow)
    THEN Outcome(other.ids, self.cache, self.borrow, "panic")
    ELSE Outcome(other.ids, HashMapExtend(other.cache, self.cache),
                 DropRefMut(TakeRefMut(self.borrow)), "ok")

\* TrackList::replace; other is owned, so into_inner() borrows nothing.
replace(self, other) ==
    IF ~CanBorrowMut(self.borrow)
    THEN Outcome(other.ids, self.cache, self.borrow, "panic")
    ELSE Outcome(other.ids, HashMapExtend(self.cache, other.cache),
                 DropRefMut(TakeRefMut(self.borrow)), "ok")

update_metadata_only_listed(self, id, metadata) ==
    IF ~CanBorrowMut(self.borrow)
    THEN Outcome(self.ids, self.cache, self.borrow, "panic")
    ELSE Outcome(self.ids,
                 IF \E i \in 1..Len(self.ids) : self.ids[i] = id
                 THEN HashMapInsert(self.cache, id, metadata)
                 ELSE self.cache,
                 DropRefMut(TakeRefMut(self.borrow)), "ok")

\* TrackList::update_metadata
update_metadata(self, id, metadata) ==
    IF ~CanBorrowMut(self.borrow)
    THEN Outcome(self.ids, self.cache, self.borrow, "panic")
    ELSE Outcome(self.ids, HashMapInsert(self.cache, id, metadata),
                 DropRefMut(TakeRefMut(self.borrow)), "ok")

\* clear_extra_cache, the flat_map over self.ids: every id still cached is
\* moved from the old map to the new one (a second occurrence finds it gone).
RECURSIVE MoveCache(_, _, _)
MoveCache(ids, old, new_cache) ==
    IF ids = <<>>
    THEN new_cache
    ELSE LET id == Head(ids)
         IN  IF id \in DOMAIN old
             THEN MoveCache(Tail(ids), HashMapRemove(old, id),
                            HashMapInsert(new_cache, id, old[id]))
             ELSE MoveCache(Tail(ids), old, new_cache)

clear_extra_cache_keeps_all(ids, cache) == cache

\* TrackList::clear_extra_cache, the new content of the cache.
clear_extra_cache(ids, cache) == MoveCache(ids, cache, HashMapNew)

reload_clears_on_error(self, answer) ==
    [(IF ~answer.ok
      THEN Outcome(<<>>, self.cache, self.borrow, "dbus_error")
      ELSE IF ~CanBorrowMut(self.borrow)
      THEN Outcome(answer.value, self.cache, self.borrow, "panic")
      ELSE Outcome(answer.value, clear_extra_cache(answer.value, self.cache),
                   DropRefMut(TakeRefMut(self.borrow)), "ok"))
        EXCEPT !.called = TRUE]

\* TrackList::reload; answer is what Player::get_track_list returned.
reload(self, answer) ==
    [(IF ~answer.ok
      THEN Outcome(self.ids, self.cache, self.borrow, "dbus_error")
      ELSE IF ~CanBorrowMut(self.borrow)
      THEN Outcome(answer.value, self.cache, self.borrow, "panic")
      ELSE Outcome(answer.value, clear_extra_cache(answer.value, self.cache),
                   DropRefMut(TakeRefMut(self.borrow)), "ok"))
        EXCEPT !.called = TRUE]

\* ids.zip(metadata).collect::<HashMap>(): pairs by position up to the
\* shorter of the two, a later pair overwriting an earlier one with its key.
RECURSIVE ZipCollect(_, _, _)
ZipCollect(ids, metadata, map) ==
    IF ids = <<>> \/ metadata = <<>>
    THEN map
    ELSE ZipCollect(Tail(ids), Tail(metadata),
                    HashMapInsert(map, Head(ids), Head(metadata)))

reload_cache_before_fetch(self, answer) ==
    [Outcome(self.ids,
             IF answer.ok THEN ZipCollect(self.ids, answer.value, HashMapNew)
             ELSE HashMapNew,
             self.borrow,
             IF answer.ok THEN "ok" ELSE "dbus_error")
        EXCEPT !.called = TRUE, !.request = self.ids]

reload_cache_keeps_old(self, answer) ==
    [(IF ~answer.ok
      THEN Outcome(self.ids, self.cache, self.borrow, "dbus_error")
      ELSE IF ~CanBorrowMut(self.borrow)
      THEN Outcome(self.ids, self.cache, self.borrow, "panic")
      ELSE Outcome(self.ids,
                   HashMapExtend(self.cache,
                                 ZipCollect(self.ids, answer.value, HashMapNew)),
                   DropRefMut(TakeRefMut(self.borrow)), "ok"))
        EXCEPT !.called = TRUE, !.request = self.ids]

\* TrackList::reload_cache; answer is what Player::get_tracks_metadata
\* returned for self.ids.
reload_cache(self, answer) ==
    [(IF ~answer.ok
      THEN Outcome(self.ids, self.cache, self.borrow, "dbus_error")
      ELSE IF ~CanBorrowMut(self.borrow)
      THEN Outcome(self.ids, self.cache, self.borrow, "panic")
      ELSE Outcome(self.ids, ZipCollect(self.ids, answer.value, HashMapNew),
                   DropRefMut(TakeRefMut(self.borrow)), "ok"))
        EXCEPT !.called = TRUE, !.request = self.ids]

ids_without_cache_first_only(ids, cache) ==
    LET missing == SelectSeq(ids, LAMBDA id : id \notin DOMAIN cache)
    IN  IF missing = <<>> THEN <<>> ELSE <<Head(missing)>>

\* TrackList::ids_without_cache, the ids it returns.
ids_without_cache(ids, cache) ==
    SelectSeq(ids, LAMBDA id : id \notin DOMAIN cache)

InsertFetched_first_only(cache, metadata) ==
    IF metadata = <<>> \/ track_id(Head(metadata)) = NoId
    THEN cache
    ELSE HashMapInsert(cache, track_id(Head(metadata)), Head(metadata))

\* complete_cache, the loop over the fetched metadata: each record goes in
\* under the track id it reports; one that reports none is dropped.
RECURSIVE InsertFetched(_, _)
InsertFetched(cache, metadata) ==
    IF metadata = <<>>
    THEN cache
    ELSE LET info == Head(metadata)
         IN  IF track_id(info) # NoId
             THEN InsertFetched(HashMapInsert(cache, track_id(info), info),
                                Tail(metadata))
             ELSE InsertFetched(cache, Tail(metadata))

complete_cache_always_fetches(self, answer) ==
    IF ~CanBorrow(self.borrow)
    THEN Outcome(self.ids, self.cache, self.borrow, "panic")
    ELSE LET ids == ids_without_cache(self.ids, self.cache)
             borrow == DropRef(TakeRef(self.borrow))
         IN  [(IF ~answer.ok
               THEN Outcome(self.ids, self.cache, borrow, "dbus_error")
               ELSE IF ~CanBorrowMut(borrow)
               THEN Outcome(self.ids, self.cache, borrow, "borrow_error")
               ELSE Outcome(self.ids,
                            InsertFetched(self.cache, answer.value),
                            DropRefMut(TakeRefMut(borrow)), "ok"))
                 EXCEPT !.called = TRUE, !.request = ids]

\* TrackList::complete_cache; answer is what Player::get_tracks_metadata
\* returns if it is called.
complete_cache(self, answer) ==
    IF ~CanBorrow(self.borrow)
    THEN Outcome(self.ids, self.cache, self.borrow, "panic")
    ELSE LET ids == ids_without_cache(self.ids, self.cache)
             borrow == DropRef(TakeRef(self.borrow))
         IN  IF ids = <<>>
             THEN Outcome(self.ids, self.cache, borrow, "ok")
             ELSE [(IF ~answer.ok
                    THEN Outcome(self.ids, self.cache, borrow, "dbus_error")
                    ELSE IF ~CanBorrowMut(borrow)
                    THEN Outcome(self.ids, self.cache, borrow, "borrow_error")
                    ELSE Outcome(self.ids,
                                 InsertFetched(self.cache, answer.value),
                                 DropRefMut(TakeRefMut(borrow)), "ok"))
                      EXCEPT !.called = TRUE, !.request = ids]

\* TrackList::metadata_iter; RefCell::clone takes a shared borrow.
metadata_iter(self, answer) ==
    LET completed == complete_cache(self, answer)
    IN  IF completed.result # "ok"
        THEN completed
        ELSE IF ~CanBorrow(completed.borrow)
        THEN [completed EXCEPT !.result = "panic"]
        ELSE [completed EXCEPT
                !.borrow = DropRef(TakeRef(completed.borrow)),
                !.iter = MetadataIter(completed.ids, completed.cache)]

next_keeps_cached(iter) ==
    IF iter.current < Len(iter.order)
    THEN LET next_id == iter.order[iter.current + 1]
         IN  [iter |-> [iter EXCEPT !.current = iter.current + 1],
              item |-> IF next_id \in DOMAIN iter.metadata
                       THEN iter.metadata[next_id]
                       ELSE MetadataNew(next_id)]
    ELSE [iter |-> iter, item |-> Nothing]

next_fails_on_miss(iter) ==
    IF iter.current < Len(iter.order)
    THEN LET next_id == iter.order[iter.current + 1]
         IN  [iter |-> [iter EXCEPT
                          !.current = iter.current + 1,
                          !.metadata = HashMapRemove(iter.metadata, next_id)],
              item |-> IF next_id \in DOMAIN iter.metadata
                       THEN iter.metadata[next_id]
                       ELSE Nothing]
    ELSE [iter |-> iter, item |-> Nothing]

\* MetadataIter::next: the iterator afterwards and the item returned.
next(iter) ==
    IF iter.current < Len(iter.order)
    THEN LET next_id == iter.order[iter.current + 1]
         IN  [iter |-> [iter EXCEPT
                          !.current = iter.current + 1,
                          !.metadata = HashMapRemove(iter.metadata, next_id)],
              item |-> IF next_id \in DOMAIN iter.metadata
                       THEN iter.metadata[next_id]
                       ELSE MetadataNew(next_id)]
    ELSE [iter |-> iter, item |-> Nothing]

\* ---------------------------------------------------------------- state
\* ids, cache, borrow: the TrackList (self.ids, the HashMap in
\* self.metadata_cache, the RefCell's borrow flag).
\* pc: "idle" between calls, "returned" while the caller holds the result of
\* the last call.  last: that call (its arguments, the list before it, how
\* it ended, what it asked the Player and was answered; for a complete_cache
\* called again, the same of the first call; for a reload that follows an
\* update_metadata, the id and the metadata of that update; for a call made
\* a held
\* iterator, whether the list was called since it was made ("mutated") and
\* whether next() was called after that ("pulled")).  iter: the MetadataIter the caller
\* holds; snapshot: its metadata when it was made; yielded: what next() has
\* returned so far.
VARIABLES ids, cache, borrow, pc, last, iter, snapshot, yielded

vars == <<ids, cache, borrow, pc, last, iter, snapshot, yielded>>

Self == TrackList(ids, cache, borrow)

NoCall ==
    [op |-> "new", result |-> "ok",
     after |-> NoId, id |-> NoId, metadata |-> Nothing,
     other_ids |-> <<>>, other_cache |-> HashMapNew,
     pre_ids |-> <<>>, pre_cache |-> HashMapNew,
     called |-> FALSE, request |-> <<>>, answer |-> DBusErr,
     again |-> FALSE, first_called |-> FALSE,
     first_request |-> <<>>, first_answer |-> DBusErr,
     after_update |-> FALSE, held |-> "untouched"]

\* The call `call` on Self, with the Player answering `answer`, ended as `out`.
Return(call, answer, out) ==
    /\ ids' = out.ids
    /\ cache' = out.cache
    /\ borrow' = out.borrow
    /\ iter' = out.iter
    /\ snapshot' = out.iter.metadata
    /\ yielded' = <<>>
    /\ pc' = "returned"
    /\ last' = [call EXCEPT !.result = out.result,
                            !.pre_ids = ids, !.pre_cache = cache,
                            !.called = out.called, !.request = out.request,
                            !.answer = IF out.called THEN answer ELSE DBusErr]

Init ==
    /\ ids \in SeqsUpTo(TrackIDs, MaxLen)
    /\ cache = new(ids).cache
    /\ borrow = new(ids).borrow
    /\ pc = "idle"
    /\ last = NoCall
    /\ iter = NoIter
    /\ snapshot = HashMapNew
    /\ yielded = <<>>

Insert ==
    /\ pc = "idle"
    /\ Len(ids) < MaxLen
    /\ \E after \in TrackIDs, metadata \in Metadata :
          Return([NoCall EXCEPT !.op = "insert", !.after = after,
                                !.metadata = metadata],
                 DBusErr, insert(Self, after, metadata))

Remove ==
    /\ pc = "idle"
    /\ \E id \in TrackIDs :
          Return([NoCall EXCEPT !.op = "remove", !.id = id],
                 DBusErr, remove(Self, id))

Replace ==
    /\ pc = "idle"
    /\ \E other_ids \in SeqsUpTo(TrackIDs, MaxLen), other_cache \in HashMaps :
          Return([NoCall EXCEPT !.op = "replace", !.other_ids = other_ids,
                                !.other_cache = other_cache],
                 DBusErr, replace(Self, TrackList(other_ids, other_cache, 0)))

UpdateMetadata ==
    /\ pc = "idle"
    /\ \E id \in TrackIDs, metadata \in Metadata :
          Return([NoCall EXCEPT !.op = "update_metadata", !.id = id,
                                !.metadata = metadata],
                 DBusErr, update_metadata(Self, id, metadata))

Reload ==
    /\ pc = "idle"
    /\ \E answer \in TrackListAnswers :
          Return([NoCall EXCEPT !.op = "reload"],
                 answer, reload(Self, answer))

ReloadCache ==
    /\ pc = "idle"
    /\ \E answer \in MetadataAnswers(ids) :
          Return([NoCall EXCEPT !.op = "reload_cache"],
                 answer, reload_cache(Self, answer))

CompleteCache ==
    /\ pc = "idle"
    /\ \E answer \in MetadataAnswers(ids_without_cache(ids, cache)) :
          Return([NoCall EXCEPT !.op = "complete_cache"],
                 answer, complete_cache(Self, answer))

\* complete_cache called again right after a complete_cache that returned
\* Ok, nothing else having touched the list.
CompleteCacheAgain ==
    /\ pc = "returned"
    /\ last.op = "complete_cache" /\ last.result = "ok" /\ ~last.again
    /\ \E answer \in MetadataAnswers(ids_without_cache(ids, cache)) :
          Return([NoCall EXCEPT !.op = "complete_cache", !.again = TRUE,
                                !.first_called = last.called,
                                !.first_request = last.request,
                                !.first_answer = last.answer],
                 answer, complete_cache(Self, answer))

\* reload as the first call after an update_metadata that has not been
\* followed by a successful reload yet.
ReloadAfterUpdate ==
    /\ pc = "returned"
    /\ \/ last.op = "update_metadata"
       \/ last.op = "reload" /\ last.after_update /\ last.result # "ok"
    /\ \E answer \in TrackListAnswers :
          Return([NoCall EXCEPT !.op = "reload", !.after_update = TRUE,
                                !.id = last.id, !.metadata = last.metadata],
                 answer, reload(Self, answer))

MetadataIterCall ==
    /\ pc = "idle"
    /\ \E answer \in MetadataAnswers(ids_without_cache(ids, cache)) :
          Return([NoCall EXCEPT !.op = "metadata_iter"],
                 answer, metadata_iter(Self, answer))

\* next() on the iterator the caller holds, up to once past its end.
IterNext ==
    /\ pc = "returned"
    /\ iter.live
    /\ Len(yielded) <= Len(iter.order)
    /\ iter' = next(iter).iter
    /\ yielded' = Append(yielded, next(iter).item)
    /\ UNCHANGED <<ids, cache, borrow, pc, last, snapshot>>

\* The caller is done with what the last call returned.
DropResult ==
    /\ pc = "returned"
    /\ pc' = "idle"
    /\ last' = NoCall
    /\ iter' = NoIter
    /\ snapshot' = HashMapNew
    /\ yielded' = <<>>
    /\ UNCHANGED <<ids, cache, borrow>>

Next ==
    \/ Insert
    \/ Remove
    \/ Replace
    \/ UpdateMetadata
    \/ Reload
    \/ ReloadCache
    \/ CompleteCache
    \/ CompleteCacheAgain
    \/ ReloadAfterUpdate
    \/ MetadataIterCall
    \/ IterNext
    \/ DropResult

Spec == Init /\ [][Next]_vars

\* ------------------------------------------- calls while iterating
\* The caller keeps the MetadataIter it got and goes on using the list
\* while it pulls from the iterator.

\* Arguments and Player answers of those calls: one Metadata per id, lists
\* of at most one id, and for get_tracks_metadata an error, no record, a
\* record for the first id asked for, or one for each.
HeldMetadata == {[id |-> id, v |-> 1] : id \in TrackIDs}
HeldLists == SeqsUpTo(TrackIDs, 1)
HeldAnswers(request) ==
    {DBusErr, Ok(<<>>)}
        \cup {Ok([i \in 1..n |-> [id |-> request[i], v |-> 1]]) :
                 n \in {1, Len(request)} \cap (1..Len(request))}

\* metadata_iter, the iterator it returns being held from then on.
HeldMetadataIter ==
    /\ pc = "idle"
    /\ \E answer \in HeldAnswers(ids_without_cache(ids, cache)) :
          Return([NoCall EXCEPT !.op = "metadata_iter"],
                 answer, metadata_iter(Self, answer))

\* A call of the list while the iterator is held ended as `out`.
HeldReturn(out) ==
    /\ ids' = out.ids
    /\ cache' = out.cache
    /\ borrow' = out.borrow
    /\ last' = [last EXCEPT !.held = "mutated"]
    /\ UNCHANGED <<pc, iter, snapshot, yielded>>

Holding == pc = "returned" /\ iter.live

HeldInsert ==
    /\ Holding
    /\ Len(ids) < MaxLen
    /\ \E after \in TrackIDs, metadata \in HeldMetadata :
          HeldReturn(insert(Self, after, metadata))

HeldRemove ==
    /\ Holding
    /\ \E id \in TrackIDs : HeldReturn(remove(Self, id))

HeldReplace ==
    /\ Holding
    /\ \E other_ids \in HeldLists :
          HeldReturn(replace(Self, new(other_ids)))

HeldUpdateMetadata ==
    /\ Holding
    /\ \E id \in TrackIDs, metadata \in HeldMetadata :
          HeldReturn(update_metadata(Self, id, metadata))

HeldReload ==
    /\ Holding
    /\ \E answer \in {DBusErr} \cup {Ok(s) : s \in HeldLists} :
          HeldReturn(reload(Self, answer))

HeldReloadCache ==
    /\ Holding
    /\ \E answer \in HeldAnswers(ids) :
          HeldReturn(reload_cache(Self, answer))

HeldCompleteCache ==
    /\ Holding
    /\ \E answer \in HeldAnswers(ids_without_cache(ids, cache)) :
          HeldReturn(complete_cache(Self, answer))

HeldNext_from_list_cache ==
    /\ Holding
    /\ Len(yielded) <= Len(iter.order)
    /\ LET shared == [iter EXCEPT !.metadata = cache]
       IN  /\ iter' = next(shared).iter
           /\ yielded' = Append(yielded, next(shared).item)
    /\ last' = [last EXCEPT !.held = IF @ = "untouched" THEN @ ELSE "pulled"]
    /\ UNCHANGED <<ids, cache, borrow, pc, snapshot>>

\* next() on the held iterator, up to once past its end.
HeldNext ==
    /\ Holding
    /\ Len(yielded) <= Len(iter.order)
    /\ iter' = next(iter).iter
    /\ yielded' = Append(yielded, next(iter).item)
    /\ last' = [last EXCEPT !.held = IF @ = "untouched" THEN @ ELSE "pulled"]
    /\ UNCHANGED <<ids, cache, borrow, pc, snapshot>>

NextIter ==
    \/ HeldMetadataIter
    \/ HeldInsert
    \/ HeldRemove
    \/ HeldReplace
    \/ HeldUpdateMetadata
    \/ HeldReload
    \/ HeldReloadCache
    \/ HeldCompleteCache
    \/ HeldNext
    \/ DropResult

SpecIter == Init /\ [][NextIter]_vars

\* --------------------------------------------------------------- claims
Contains(s, x) == \E i \in 1..Len(s) : s[i] = x

Occurrences(s, x) == Cardinality({i \in 1..Len(s) : s[i] = x})

\* Where x first occurs in s (1-based); x occurs in s.
FirstIndex(s, x) ==
    LET at == {i \in 1..Len(s) : s[i] = x}
    IN  CHOOSE i \in at : \A j \in at : i <= j

\* t is s with one element put in at position p, everything else as it was.
PutInAt(s, t, p) ==
    /\ Len(t) = Len(s) + 1
    /\ \A i \in 1..Len(s) : s[i] = t[IF i < p THEN i ELSE i + 1]

\* t is s without its occurrences of x, the rest in the order it had.
StableWithout(s, t, x) ==
    LET keep == {i \in 1..Len(s) : s[i] # x}
    IN  /\ Len(t) = Cardinality(keep)
        /\ \A j \in 1..Len(t) :
              t[j] = s[CHOOSE i \in keep :
                          Cardinality({k \in keep : k <= i}) = j]

\* An insert of a Metadata that carries an id has returned.
Inserted == last.op = "insert" /\ track_id(last.metadata) # NoId

\* C1 as stated: after insert(after, m) with m carrying x and `after` on
\* the list, x is on the list exactly once, right after the first `after`,
\* and the elements other than x are in the order they had.
C1_InsertAfterExactlyOnce ==
    (Inserted /\ Contains(last.pre_ids, last.after)) =>
        LET x == track_id(last.metadata)
        IN  /\ Occurrences(ids, x) = 1
            /\ ids[FirstIndex(ids, last.after) + 1] = x
            /\ \E t \in SeqsUpTo(TrackIDs, MaxLen) :
                  /\ StableWithout(ids, t, x)
                  /\ StableWithout(last.pre_ids, t, x)

\* C1 amended: after insert(after, m) with m carrying x and `after` on the
\* list, the list is the old one with x put in right after the first
\* `after`: x occurs once more than before (exactly once if it was not on
\* the list), and every other element is where it was relative to the rest.
C1_InsertAfterOnceMore ==
    (Inserted /\ Contains(last.pre_ids, last.after)) =>
        LET x == track_id(last.metadata)
            p == FirstIndex(last.pre_ids, last.after)
        IN  /\ Occurrences(ids, x) = Occurrences(last.pre_ids, x) + 1
            /\ FirstIndex(ids, last.after) = p
            /\ ids[p + 1] = x
            /\ PutInAt(last.pre_ids, ids, p + 1)

C1_Witness ==
    /\ Inserted
    /\ Contains(last.pre_ids, last.after)
    /\ Contains(last.pre_ids, track_id(last.metadata))
    /\ track_id(last.metadata) # last.after
    /\ FirstIndex(last.pre_ids, last.after) < Len(last.pre_ids)
    /\ last.result = "ok"

\* C2: after insert(after, m) with m carrying x and `after` not on the list
\* (the empty list too), the list is the old one followed by x.
C2_InsertAppendsOnMissing ==
    (Inserted /\ ~Contains(last.pre_ids, last.after)) =>
        /\ Len(ids) = Len(last.pre_ids) + 1
        /\ ids[Len(ids)] = track_id(last.metadata)
        /\ \A i \in 1..Len(last.pre_ids) : ids[i] = last.pre_ids[i]

C2_Witness ==
    /\ Inserted
    /\ ~Contains(last.pre_ids, last.after)
    /\ Len(last.pre_ids) >= 2
    /\ ids[Len(ids)] = track_id(last.metadata)

\* C3: insert of a Metadata that carries no id changes neither the ids nor
\* the cache, whatever `after` and the list are.
C3_InsertWithoutIdIsNoOp ==
    (last.op = "insert" /\ track_id(last.metadata) = NoId) =>
        /\ ids = last.pre_ids
        /\ cache = last.pre_cache
        /\ last.result = "ok"

C3_Witness ==
    /\ last.op = "insert"
    /\ track_id(last.metadata) = NoId
    /\ Contains(last.pre_ids, last.after)
    /\ last.pre_cache # HashMapNew
    /\ ids = last.pre_ids

\* C4: after remove(x), x occurring k >= 0 times before, x is nowhere on
\* the list and has no cache entry, the other elements are in the order they
\* had (the list is k shorter), and the call did not fail.
C4_RemoveAllOccurrences ==
    last.op = "remove" =>
        /\ Occurrences(ids, last.id) = 0
        /\ last.id \notin DOMAIN cache
        /\ StableWithout(last.pre_ids, ids, last.id)
        /\ Len(ids) = Len(last.pre_ids) - Occurrences(last.pre_ids, last.id)
        /\ last.result = "ok"

C4_Witness ==
    /\ last.op = "remove"
    /\ Occurrences(last.pre_ids, last.id) >= 2
    /\ last.id \in DOMAIN last.pre_cache
    /\ Len(ids) >= 1
    /\ last.id \notin DOMAIN cache

\* The smaller of two numbers.
Min(m, n) == IF m <= n THEN m ELSE n

\* The pairs (ids[i], records[i]), as far as both go.
PairedKeys(order, records) ==
    {order[i] : i \in 1..Min(Len(order), Len(records))}

\* The record paired last with key k.
PairedLast(order, records, k) ==
    LET at == {i \in 1..Min(Len(order), Len(records)) : order[i] = k}
    IN  records[CHOOSE i \in at : \A j \in at : j <= i]

\* C5: reload_cache leaves the cache either as it was (the fetch failed,
\* and the call returns the Player's error) or holding the fetched pairs
\* and nothing else (the fetch succeeded); never a mix of old and new.
C5_ReloadCacheAtomic ==
    last.op = "reload_cache" =>
        /\ last.called /\ last.request = ids /\ ids = last.pre_ids
        /\ ~last.answer.ok =>
              (cache = last.pre_cache /\ last.result = "dbus_error")
        /\ last.answer.ok =>
              /\ last.result = "ok"
              /\ DOMAIN cache = PairedKeys(ids, last.answer.value)
              /\ \A k \in DOMAIN cache :
                    cache[k] = PairedLast(ids, last.answer.value, k)

C5_Witness ==
    /\ last.op = "reload_cache"
    /\ ~last.answer.ok
    /\ last.result = "dbus_error"
    /\ ids # <<>>
    /\ cache # HashMapNew
    /\ \E k \in DOMAIN cache : ~Contains(ids, k)

\* The records answer every id asked for: each id of the request is the
\* track id of one of them.
Covers(records, request) ==
    \A i \in 1..Len(request) :
        \E j \in 1..Len(records) : track_id(records[j]) = request[i]

\* C6 as stated: of two complete_cache calls in a row that both return Ok,
\* at most one fetches, whatever the Player answers.
C6_SecondNeverFetches ==
    (last.op = "complete_cache" /\ last.again /\ last.result = "ok") =>
        ~(last.first_called /\ last.called)

\* C6 amended: when the first of two complete_cache calls in a row needed
\* no fetch, or its fetch was answered with a record for every id it asked
\* for, the second call fetches nothing and returns Ok with the cache as
\* the first left it.
C6_SecondFetchesNothingAfterFullAnswer ==
    (/\ last.op = "complete_cache" /\ last.again
     /\ last.first_called =>
            Covers(last.first_answer.value, last.first_request)) =>
        /\ ~last.called
        /\ last.result = "ok"
        /\ cache = last.pre_cache

C6_Witness ==
    /\ last.op = "complete_cache" /\ last.again
    /\ last.first_called
    /\ Cardinality({last.first_request[i] :
                        i \in 1..Len(last.first_request)}) = 2
    /\ Covers(last.first_answer.value, last.first_request)
    /\ ~last.called

\* complete_cache, or the complete_cache of metadata_iter, has returned Ok.
Completed ==
    /\ last.op \in {"complete_cache", "metadata_iter"}
    /\ last.result = "ok"

EveryIdCached ==
    /\ ids_without_cache(ids, cache) = <<>>
    /\ \A i \in 1..Len(ids) : ids[i] \in DOMAIN cache
    /\ (iter.live /\ yielded = <<>>) =>
          \A i \in 1..Len(iter.order) : iter.order[i] \in DOMAIN iter.metadata

\* C7 as stated: once complete_cache has returned Ok every id of the list
\* has a cache entry, and so has every id of the order of the iterator a
\* successful metadata_iter returns.
C7_CompleteAfterOk == Completed => EveryIdCached

\* C7 amended: the same, provided the fetch complete_cache made (if it made
\* one) was answered with a record for every id it asked for.
C7_CompleteAfterFullAnswer ==
    (Completed /\ (last.called => Covers(last.answer.value, last.request)))
        => EveryIdCached

C7_Witness ==
    /\ last.op = "metadata_iter" /\ last.result = "ok"
    /\ last.called
    /\ Cardinality({last.request[i] : i \in 1..Len(last.request)}) = 2
    /\ Covers(last.answer.value, last.request)
    /\ iter.live /\ yielded = <<>>
    /\ \A i \in 1..Len(iter.order) : iter.order[i] \in DOMAIN iter.metadata

\* C8: after a reload that returned Ok the ids are the Player's, in its
\* order; every cache key is one of them; and every id that was cached
\* before and is still on the list has the record it had.
C8_ReloadPrunesAndKeeps ==
    (last.op = "reload" /\ last.result = "ok") =>
        /\ last.answer.ok
        /\ ids = last.answer.value
        /\ \A k \in DOMAIN cache : Contains(ids, k)
        /\ \A k \in DOMAIN last.pre_cache :
              Contains(ids, k) =>
                  (k \in DOMAIN cache /\ cache[k] = last.pre_cache[k])

C8_Witness ==
    /\ last.op = "reload" /\ last.result = "ok"
    /\ \E k \in DOMAIN last.pre_cache : ~Contains(ids, k)
    /\ \E k \in DOMAIN last.pre_cache :
          Occurrences(ids, k) >= 2 /\ k \in DOMAIN cache
    /\ ids # last.pre_ids

\* C9: after replace(other) the ids are other's, in its order, and the
\* cache is the old one overridden by other's: other's record under every
\* key of other's cache, the old record under every other old key, pruned
\* of nothing.
C9_ReplaceMergesCache ==
    last.op = "replace" =>
        /\ ids = last.other_ids
        /\ DOMAIN cache = (DOMAIN last.pre_cache) \cup (DOMAIN last.other_cache)
        /\ \A k \in DOMAIN last.other_cache : cache[k] = last.other_cache[k]
        /\ \A k \in (DOMAIN last.pre_cache) \ (DOMAIN last.other_cache) :
              cache[k] = last.pre_cache[k]

C9_Witness ==
    /\ last.op = "replace"
    /\ \E k \in (DOMAIN last.pre_cache) \cap (DOMAIN last.other_cache) :
          last.pre_cache[k] # last.other_cache[k] /\ cache[k] = last.other_cache[k]
    /\ \E k \in (DOMAIN last.pre_cache) \ (DOMAIN last.other_cache) :
          ~Contains(ids, k) /\ k \in DOMAIN cache

\* C10: the iterator yields a cached record once only: the i-th item is the
\* snapshot's record for the i-th id of the order where that id occurs for
\* the first time and is cached, and otherwise a new Metadata with just
\* that id.
C10_CachedRecordYieldedOnce ==
    iter.live =>
        \A i \in 1..Min(Len(yielded), Len(iter.order)) :
            LET id == iter.order[i]
            IN  yielded[i] =
                    IF id \in DOMAIN snapshot /\ FirstIndex(iter.order, id) = i
                    THEN snapshot[id]
                    ELSE MetadataNew(id)

C10_Witness ==
    /\ iter.live
    /\ iter.order = <<"a", "b", "a">>
    /\ DOMAIN snapshot = {"a"} /\ snapshot["a"] = [id |-> "a", v |-> 1]
    /\ yielded = <<[id |-> "a", v |-> 1], MetadataNew("b"), MetadataNew("a")>>

\* C11: an iterator over n ids returns a record on each of its first n
\* calls of next, the i-th being the snapshot's record under the i-th id of
\* the order or a new Metadata with that id (never nothing, cached or not),
\* and nothing on a later call; its cursor is the number of records
\* returned and never exceeds n.
C11_OneRecordPerId ==
    iter.live =>
        LET n == Len(iter.order)
        IN  /\ iter.current <= n
            /\ iter.current = Min(Len(yielded), n)
            /\ \A i \in 1..Len(yielded) :
                  IF i <= n
                  THEN /\ yielded[i] # Nothing
                       /\ \/ /\ iter.order[i] \in DOMAIN snapshot
                             /\ yielded[i] = snapshot[iter.order[i]]
                          \/ yielded[i] = MetadataNew(iter.order[i])
                  ELSE yielded[i] = Nothing

C11_Witness ==
    /\ iter.live
    /\ Len(iter.order) = 3
    /\ Len(yielded) = 4
    /\ yielded[4] = Nothing
    /\ iter.current = 3
    /\ \E i \in 1..3 : iter.order[i] \notin DOMAIN snapshot
    /\ \E i \in 1..3 : /\ iter.order[i] \in DOMAIN snapshot
                       /\ yielded[i] = snapshot[iter.order[i]]
                       /\ yielded[i] # MetadataNew(iter.order[i])

\* t is the elements of s at the positions in keep, in the order of s.
StableKeep(s, t, keep) ==
    /\ Len(t) = Cardinality(keep)
    /\ \A j \in 1..Len(t) :
          t[j] = s[CHOOSE i \in keep :
                      Cardinality({k \in keep : k <= i}) = j]

\* The positions of s whose id has no entry in map.
Uncached(s, map) == {i \in 1..Len(s) : s[i] \notin DOMAIN map}

\* C14: complete_cache on a list whose ids all have a cache entry (the
\* empty list too) returns Ok, asks the Player nothing and leaves the
\* cache as it was; otherwise it asks once, for the ids of the list that
\* have no cache entry, in list order.
C14_FetchesExactlyTheHoles ==
    last.op = "complete_cache" =>
        LET holes == Uncached(last.pre_ids, last.pre_cache)
        IN  /\ holes = {} =>
                  /\ last.result = "ok"
                  /\ ~last.called
                  /\ cache = last.pre_cache
            /\ holes # {} =>
                  /\ last.called
                  /\ StableKeep(last.pre_ids, last.request, holes)

C14_Witness ==
    /\ last.op = "complete_cache" /\ ~last.again
    /\ Len(last.pre_ids) = 3
    /\ DOMAIN last.pre_cache = TrackIDs
    /\ {last.pre_ids[i] : i \in 1..3} = TrackIDs
    /\ ~last.called
    /\ last.result = "ok"

\* C16: when reload, complete_cache or metadata_iter is answered with an
\* error by the Player, it returns that error, the ids and the cache are
\* what they were before the call, and metadata_iter returns no iterator.
C16_FetchFailureChangesNothing ==
    last.op \in {"reload", "complete_cache", "metadata_iter"} =>
        /\ (last.called /\ ~last.answer.ok) => last.result = "dbus_error"
        /\ last.result = "dbus_error" =>
              /\ last.called /\ ~last.answer.ok
              /\ ids = last.pre_ids
              /\ cache = last.pre_cache
              /\ ~iter.live

C16_Witness ==
    /\ last.op = "reload"
    /\ last.result = "dbus_error"
    /\ Len(ids) >= 2
    /\ \E k \in DOMAIN cache : ~Contains(ids, k)
    /\ \E k \in DOMAIN cache : Contains(ids, k)

\* The ids on a list, as a set.
IdSet(s) == {s[i] : i \in 1..Len(s)}

ReloadedCache == last.op = "reload_cache" /\ last.result = "ok"

\* C17 as stated: after a successful reload_cache the cache is the ids
\* paired by position with the fetched records, its keys are exactly the
\* ids of the list, and nothing cached before survives outside the list.
C17_CacheKeysAreTheIds ==
    ReloadedCache =>
        /\ DOMAIN cache = IdSet(ids)
        /\ \A k \in DOMAIN cache :
              \E i \in 1..Min(Len(ids), Len(last.answer.value)) :
                  ids[i] = k /\ cache[k] = last.answer.value[i]

\* C17 amended: after a successful reload_cache the cache is the ids paired
\* by position with the fetched records, as far as the records go (the last
\* pair of an id listed twice): its keys are the ids at the positions that
\* got a record, which are all ids of the list when the Player returned a
\* record for every position, and nothing cached before survives outside
\* the list.
C17_CacheIsThePairs ==
    ReloadedCache =>
        LET records == last.answer.value
            paired == 1..Min(Len(ids), Len(records))
        IN  /\ DOMAIN cache = {ids[i] : i \in paired}
            /\ DOMAIN cache \subseteq IdSet(ids)
            /\ Len(records) >= Len(ids) => DOMAIN cache = IdSet(ids)
            /\ \A k \in DOMAIN cache :
                  \E i \in paired :
                      /\ ids[i] = k
                      /\ cache[k] = records[i]
                      /\ \A j \in paired : ids[j] = k => j <= i

C17_Witness ==
    /\ ReloadedCache
    /\ Len(ids) = 3
    /\ Len(last.answer.value) = 3
    /\ Occurrences(ids, ids[1]) = 2
    /\ last.answer.value[1] # last.answer.value[2]
    /\ last.answer.value[2] # last.answer.value[3]
    /\ DOMAIN cache = TrackIDs
    /\ \E k \in DOMAIN last.pre_cache : cache[k] # last.pre_cache[k]

\* C18: insert(after, m) with m carrying x leaves the cache with m under x,
\* in place of whatever was there, and every other entry as it was, whether
\* x went in after `after` or at the end; ids_without_cache then returns the
\* ids of the list that have no cache entry, in list order, x not among them.
C18_InsertCachesTheRecord ==
    Inserted =>
        LET x == track_id(last.metadata)
            reported == ids_without_cache(ids, cache)
        IN  /\ x \in DOMAIN cache /\ cache[x] = last.metadata
            /\ DOMAIN cache = (DOMAIN last.pre_cache) \cup {x}
            /\ \A k \in (DOMAIN last.pre_cache) \ {x} :
                  cache[k] = last.pre_cache[k]
            /\ StableKeep(ids, reported, Uncached(ids, cache))
            /\ ~Contains(reported, x)

\* The list of two uncached ids of the test, the new id put between them.
C18_Witness ==
    /\ Inserted
    /\ last.pre_cache = HashMapNew
    /\ Len(last.pre_ids) = 2
    /\ ~Contains(last.pre_ids, track_id(last.metadata))
    /\ Contains(last.pre_ids, last.after)
    /\ ids[2] = track_id(last.metadata)
    /\ ids_without_cache(ids, cache) = last.pre_ids
    /\ cache[track_id(last.metadata)] = last.metadata

\* C19: update_metadata, reload_cache, complete_cache and metadata_iter,
\* however they end, leave the ids (content, order, duplicates) and len()
\* as they were; and len() is always the number of entries of ids, whatever
\* the cache holds.
C19_OrderIndependentOfCache ==
    /\ len(Self) = Cardinality(DOMAIN ids)
    /\ last.op \in {"update_metadata", "reload_cache", "complete_cache",
                    "metadata_iter"} =>
          /\ ids = last.pre_ids
          /\ len(Self) = Len(last.pre_ids)

C19_Witness ==
    /\ last.op = "update_metadata"
    /\ ~Contains(ids, last.id)
    /\ Cardinality(DOMAIN cache) > Len(ids)
    /\ Cardinality(DOMAIN cache) > Cardinality(DOMAIN last.pre_cache)
    /\ len(Self) = 1

\* C20: no borrow of the cache outlives the call that took it: whenever a
\* call of the list has returned nothing is borrowed, so in calls made one
\* after another every borrow_mut() of insert, remove, replace,
\* update_metadata, reload and reload_cache succeeds and complete_cache and
\* metadata_iter never return a BorrowError.
C20_NoBorrowOutlivesCall ==
    /\ borrow = 0
    /\ last.result \in {"ok", "dbus_error"}
    /\ last.result = "dbus_error" => (last.called /\ ~last.answer.ok)

C20_Witness ==
    /\ last.op = "complete_cache" /\ last.again
    /\ last.first_called /\ last.called
    /\ last.result = "ok"
    /\ cache # last.pre_cache
    /\ borrow = 0

\* C15: update_metadata(id, m) puts m in the cache under id, on the list or
\* not, and leaves the ids alone; the next reload that returns Ok drops
\* that entry if id is not on the list it loaded and keeps it, with m, if
\* id is on it (a reload that fails in between drops nothing).
C15_UpdateKeptUntilCleanup ==
    /\ last.op = "update_metadata" =>
          /\ last.result = "ok"
          /\ ids = last.pre_ids
          /\ DOMAIN cache = (DOMAIN last.pre_cache) \cup {last.id}
          /\ cache[last.id] = last.metadata
    /\ (last.op = "reload" /\ last.after_update) =>
          /\ last.id \in DOMAIN last.pre_cache
          /\ last.pre_cache[last.id] = last.metadata
          /\ last.result = "ok" =>
                /\ last.id \notin DOMAIN cache <=> ~Contains(ids, last.id)
                /\ Contains(ids, last.id) => cache[last.id] = last.metadata
          /\ last.result # "ok" =>
                (last.id \in DOMAIN cache /\ cache[last.id] = last.metadata)

\* The id was not on the list when its metadata was stored, is on the list
\* the reload loaded, and its entry is still there.
C15_Witness ==
    /\ last.op = "reload" /\ last.after_update
    /\ last.result = "ok"
    /\ ~Contains(last.pre_ids, last.id)
    /\ Contains(ids, last.id)
    /\ cache[last.id] = last.metadata
    /\ \E k \in DOMAIN last.pre_cache : k \notin DOMAIN cache

\* C12: a held iterator is a snapshot: while the list it came from is
\* inserted into, removed from, replaced, updated and reloaded between the
\* calls of next, the iterator keeps the order the list had when it was made
\* and yields what that order and the metadata it took then determine; and
\* a call of next leaves the list's ids and cache as they were.
C12_IteratorIsASnapshot ==
    /\ [](iter.live =>
            /\ iter.order = last.pre_ids
            /\ \A i \in 1..Len(yielded) :
                  yielded[i] =
                      IF i > Len(last.pre_ids) THEN Nothing
                      ELSE IF /\ last.pre_ids[i] \in DOMAIN snapshot
                              /\ FirstIndex(last.pre_ids, last.pre_ids[i]) = i
                           THEN snapshot[last.pre_ids[i]]
                           ELSE MetadataNew(last.pre_ids[i]))
    /\ [][Len(yielded') = Len(yielded) + 1 => ids' = ids /\ cache' = cache]_vars

C12_Witness ==
    /\ iter.live
    /\ last.held = "pulled"
    /\ last.pre_ids = <<"a", "b", "a">>
    /\ DOMAIN snapshot = {"a"} /\ snapshot["a"] = [id |-> "a", v |-> 1]
    /\ yielded = <<[id |-> "a", v |-> 1], MetadataNew("b"), MetadataNew("a")>>
    /\ ids = <<"b">>
    /\ DOMAIN cache = {"b"} /\ cache["b"] = [id |-> "b", v |-> 1]

====
